---- MODULE Spec2Model ----
(***************************************************************************)
(* Model of src/dem/srtm.py: the Langtang DEM script.  The script is a     *)
(* straight-line program: four direct tile downloads, then either the      *)
(* OpenTopography fallback or the .hgt -> GeoTIFF converter, then the      *)
(* load-and-plot stage.  The environment (HTTP responses, the files that   *)
(* are on disk at start) is chosen nondeterministically.                   *)
(*                                                                         *)
(* A path is a sequence of components (<<"N28E085.hgt">> is a file of the  *)
(* working directory); the disk is a function from paths to files.         *)
(* Degrees with decimals are kept in hundredths (85.25 is 8525).           *)
(***************************************************************************)
EXTENDS Integers, Sequences, FiniteSets, TLC

VARIABLES disk, pc, lat, lon, success, hgt_mode, dem, err,
          disk0, calls, fbCalls, checks, reads, converted, log

vars == <<disk, pc, lat, lon, success, hgt_mode, dem, err,
          disk0, calls, fbCalls, checks, reads, converted, log>>

(***************************************************************************)
(* Bounds of the environment.                                              *)
(***************************************************************************)
MaxChunks == 2
MaxChunkLen == 1
MaxByte == 1

(***************************************************************************)
(* Program constants.                                                      *)
(***************************************************************************)
HgtDim == 3601
HttpOk == 200
LatFirst == 28
LatStop == 30
LonFirst == 85
LonStop == 87
bounds == <<8525, 2815, 8590, 2860>>
output_tif == <<"langtang_srtm.tif">>
heightmap_png == <<"langtang_heightmap.png">>

range(a, b) == a..(b - 1)

(***************************************************************************)
(* Files.  Every file is a record of one shape:                            *)
(*   kind   "hgt" (raw samples), "zip", "bytes" (a streamed body),         *)
(*          "gtiff" (a raster written by the raster library)               *)
(*   size   byte length of raw samples (hgt, and the member of a zip)      *)
(*   tag    where the samples come from                                    *)
(*   bytes  the content of a streamed body                                 *)
(*   valid  zip: the archive can be opened                                 *)
(*   member zip: path of the single member inside the archive              *)
(*   origin gtiff: the transform's origin (west, north)                    *)
(***************************************************************************)
File(k, sz, tg, bs, v, m, o) ==
    [kind |-> k, size |-> sz, tag |-> tg, bytes |-> bs, valid |-> v,
     member |-> m, origin |-> o]

Hgt(tg, sz) == File("hgt", sz, tg, <<>>, TRUE, <<>>, <<0, 0>>)
Zip(v, m, tg, sz) == File("zip", sz, tg, <<>>, v, m, <<0, 0>>)
Bytes(bs) == File("bytes", Len(bs), "body", bs, TRUE, <<>>, <<0, 0>>)
GTiff(tg, o) == File("gtiff", 0, tg, <<>>, TRUE, <<>>, o)

FullSize == 2 * HgtDim * HgtDim
ShortSize == FullSize - 2

Exists(d, p) == p \in DOMAIN d
WriteFile(d, p, f) == [q \in (DOMAIN d) \cup {p} |-> IF q = p THEN f ELSE d[q]]
RemoveFile(d, p) == [q \in (DOMAIN d) \ {p} |-> d[q]]

dirname(p) == SubSeq(p, 1, Len(p) - 1)
PlusSuffix(p, s) == [p EXCEPT ![Len(p)] = @ \o s]

(***************************************************************************)
(* tile_name: hemisphere letters and zero-padded decimal fields.           *)
(***************************************************************************)
Digit(n) == <<"0", "1", "2", "3", "4", "5", "6", "7", "8", "9">>[n + 1]
abs(n) == IF n >= 0 THEN n ELSE -n

RECURSIVE Dec(_)
Dec(n) == IF n < 10 THEN Digit(n) ELSE Dec(n \div 10) \o Digit(n % 10)

RECURSIVE Pad(_, _)
Pad(s, w) == IF Len(s) >= w THEN s ELSE Pad("0" \o s, w)

tile_name(la, lo) ==
    LET ns == IF la >= 0 THEN "N" ELSE "S"
        ew == IF lo >= 0 THEN "E" ELSE "W"
    IN  ns \o Pad(Dec(abs(la)), 2) \o ew \o Pad(Dec(abs(lo)), 3)

TilePath(la, lo) == <<tile_name(la, lo) \o ".hgt">>

(***************************************************************************)
(* HTTP responses.  raises: requests.get itself raised (no connection).    *)
(***************************************************************************)
FailStatuses == {404, 503}
NoBody == Bytes(<<>>)

Archives(tile) ==
    {Zip(FALSE, <<>>, "", 0)} \cup
    {Zip(TRUE, m, tile, sz) :
        m \in {<<tile \o ".hgt">>, <<"SRTM1", tile \o ".hgt">>},
        sz \in {FullSize, ShortSize}}

DirectResponses(tile) ==
    {[raises |-> TRUE, status |-> 0, body |-> NoBody]} \cup
    {[raises |-> FALSE, status |-> s, body |-> NoBody] : s \in FailStatuses} \cup
    {[raises |-> FALSE, status |-> HttpOk, body |-> z] : z \in Archives(tile)}

Chunks == UNION {[1..n -> 0..MaxByte] : n \in 1..MaxChunkLen}
Bodies == UNION {[1..n -> Chunks] : n \in 0..MaxChunks}

FallbackResponses ==
    {[raises |-> TRUE, status |-> 0, chunks |-> <<>>]} \cup
    {[raises |-> FALSE, status |-> s, chunks |-> <<>>] : s \in FailStatuses} \cup
    {[raises |-> FALSE, status |-> HttpOk, chunks |-> b] : b \in Bodies}

(***************************************************************************)
(* download_srtm_aws(lat, lon, out_path) on response r and disk d.         *)
(* ret is "True", "False" or "raise" (with exc the exception).             *)
(***************************************************************************)
\* variant: the body is written to the temporary file before the status
\* is looked at
download_srtm_aws_write_first(la, lo, out_path, r, d) ==
    LET zip_path == PlusSuffix(out_path, ".zip")
        d1 == WriteFile(d, zip_path, r.body)
        target == dirname(out_path) \o r.body.member
        d2 == WriteFile(d1, target, Hgt(r.body.tag, r.body.size))
        d3 == RemoveFile(d2, zip_path)
    IN  IF r.raises
        THEN [ret |-> "raise", exc |-> "ConnectionError", disk |-> d]
        ELSE IF r.status # HttpOk
        THEN [ret |-> "False", exc |-> "none", disk |-> d1]
        ELSE IF ~r.body.valid
        THEN [ret |-> "raise", exc |-> "BadZipFile", disk |-> d1]
        ELSE [ret |-> "True", exc |-> "none", disk |-> d3]

\* variant: the temporary file is not removed
download_srtm_aws_keep_zip(la, lo, out_path, r, d) ==
    LET zip_path == PlusSuffix(out_path, ".zip")
        d1 == WriteFile(d, zip_path, r.body)
        target == dirname(out_path) \o r.body.member
        d2 == WriteFile(d1, target, Hgt(r.body.tag, r.body.size))
    IN  IF r.raises
        THEN [ret |-> "raise", exc |-> "ConnectionError", disk |-> d]
        ELSE IF r.status # HttpOk
        THEN [ret |-> "False", exc |-> "none", disk |-> d]
        ELSE IF ~r.body.valid
        THEN [ret |-> "raise", exc |-> "BadZipFile", disk |-> d1]
        ELSE [ret |-> "True", exc |-> "none", disk |-> d2]

download_srtm_aws(la, lo, out_path, r, d) ==
    LET zip_path == PlusSuffix(out_path, ".zip")
        d1 == WriteFile(d, zip_path, r.body)
        target == dirname(out_path) \o r.body.member
        d2 == WriteFile(d1, target, Hgt(r.body.tag, r.body.size))
        d3 == RemoveFile(d2, zip_path)
    IN  IF r.raises
        THEN [ret |-> "raise", exc |-> "ConnectionError", disk |-> d]
        ELSE IF r.status # HttpOk
        THEN [ret |-> "False", exc |-> "none", disk |-> d]
        ELSE IF ~r.body.valid
        THEN [ret |-> "raise", exc |-> "BadZipFile", disk |-> d1]
        ELSE [ret |-> "True", exc |-> "none", disk |-> d3]

(***************************************************************************)
(* download_opentopo(bounds, out_path, api_key) on response r and disk d.  *)
(***************************************************************************)
api_key == "d4339698fa9c0fc3fbdfaef059ebb1c3"

RECURSIVE WriteChunks(_, _)
WriteChunks(written, chunks) ==
    IF chunks = <<>> THEN written
    ELSE WriteChunks(written \o Head(chunks), Tail(chunks))

\* variant: the bounds are unpacked latitude first
OpenTopoUrl_lat_first(bnds, key) ==
    LET minlat == bnds[1]
        minlon == bnds[2]
        maxlat == bnds[3]
        maxlon == bnds[4]
    IN  [demtype |-> "SRTMGL1", south |-> minlat, north |-> maxlat,
         west |-> minlon, east |-> maxlon,
         outputFormat |-> "GTiff" \o "apikey=" \o key]

OpenTopoUrl(bnds, key) ==
    LET minlon == bnds[1]
        minlat == bnds[2]
        maxlon == bnds[3]
        maxlat == bnds[4]
    IN  [demtype |-> "SRTMGL1", south |-> minlat, north |-> maxlat,
         west |-> minlon, east |-> maxlon,
         outputFormat |-> "GTiff" \o "apikey=" \o key]

\* variant: a non-200 status is a soft failure, as in the direct fetcher
download_opentopo_soft(bnds, out_path, key, r, d) ==
    IF r.raises
    THEN [ret |-> "raise", exc |-> "ConnectionError", disk |-> d]
    ELSE IF r.status # HttpOk
    THEN [ret |-> "False", exc |-> "none", disk |-> d]
    ELSE [ret |-> "True", exc |-> "none",
          disk |-> WriteFile(d, out_path, Bytes(WriteChunks(<<>>, r.chunks)))]

download_opentopo(bnds, out_path, key, r, d) ==
    IF r.raises
    THEN [ret |-> "raise", exc |-> "ConnectionError", disk |-> d]
    ELSE IF r.status # HttpOk
    THEN [ret |-> "raise", exc |-> "RuntimeError", disk |-> d]
    ELSE [ret |-> "True", exc |-> "none",
          disk |-> WriteFile(d, out_path, Bytes(WriteChunks(<<>>, r.chunks)))]

(***************************************************************************)
(* The raster library.  A streamed body opens as a raster when it starts   *)
(* with the format's magic byte; a file the library wrote always opens.    *)
(***************************************************************************)
TiffMagic == 1
NoDem == [tag |-> "none", bytes |-> <<>>, origin |-> <<0, 0>>]

IsRaster(f) ==
    \/ f.kind = "gtiff"
    \/ f.kind = "bytes" /\ f.bytes # <<>> /\ f.bytes[1] = TiffMagic

\* variant: a missing file opens as an empty raster
rasterio_open_missing_ok(d, p) ==
    IF ~Exists(d, p) THEN [exc |-> "none", band |-> NoDem]
    ELSE IF ~IsRaster(d[p]) THEN [exc |-> "NotARaster", band |-> NoDem]
    ELSE [exc |-> "none",
          band |-> [tag |-> d[p].tag, bytes |-> d[p].bytes, origin |-> d[p].origin]]

rasterio_open(d, p) ==
    IF ~Exists(d, p) THEN [exc |-> "FileNotFound", band |-> NoDem]
    ELSE IF ~IsRaster(d[p]) THEN [exc |-> "NotARaster", band |-> NoDem]
    ELSE [exc |-> "none",
          band |-> [tag |-> d[p].tag, bytes |-> d[p].bytes, origin |-> d[p].origin]]

(***************************************************************************)
(* np.fromfile(...).reshape(3601, 3601): big-endian 16-bit samples.        *)
(***************************************************************************)
Samples(f) == f.size \div 2
ReshapeOk(f) == Samples(f) = HgtDim * HgtDim

from_origin(west, north) == <<west, north>>

(***************************************************************************)
(* The module-level script.                                                *)
(***************************************************************************)
Grid == {<<la, lo>> : la \in range(LatFirst, LatStop), lo \in range(LonFirst, LonStop)}
GridPaths == {TilePath(g[1], g[2]) : g \in Grid}

InitialDisks ==
    {[p \in S \cup T |-> IF p = output_tif THEN GTiff("old", <<0, 0>>)
                         ELSE Hgt("old", FullSize)] :
        S \in SUBSET GridPaths, T \in {{}, {output_tif}}}

Init ==
    /\ disk \in InitialDisks
    /\ disk0 = disk
    /\ pc = "download"
    /\ lat = LatFirst
    /\ lon = LonFirst
    /\ success = FALSE
    /\ hgt_mode = "unset"
    /\ dem = NoDem
    /\ err = "none"
    /\ calls = <<>>
    /\ fbCalls = <<>>
    /\ checks = <<>>
    /\ reads = <<>>
    /\ converted = <<>>
    /\ log = <<>>

\* variant: the flag is assigned the result of each attempt
SetSuccess_assign(s, ret) == ret = "True"

\* if download_srtm_aws(...): success = True
SetSuccess(s, ret) == IF ret = "True" THEN TRUE ELSE s

\* variant: the loop stops at the first success
NextDirect_short_circuit(la, lo, ret) ==
    IF ret = "True" THEN [pc |-> "branch", lat |-> la, lon |-> lo]
    ELSE IF lo + 1 < LonStop THEN [pc |-> "download", lat |-> la, lon |-> lo + 1]
    ELSE IF la + 1 < LatStop THEN [pc |-> "download", lat |-> la + 1, lon |-> LonFirst]
    ELSE [pc |-> "branch", lat |-> la, lon |-> lo]

\* the position of the double loop after the body ran at (la, lo)
NextDirect(la, lo, ret) ==
    IF lo + 1 < LonStop THEN [pc |-> "download", lat |-> la, lon |-> lo + 1]
    ELSE IF la + 1 < LatStop THEN [pc |-> "download", lat |-> la + 1, lon |-> LonFirst]
    ELSE [pc |-> "branch", lat |-> la, lon |-> lo]

\* one iteration of the download loop: one call of download_srtm_aws
DirectDownload ==
    /\ pc = "download"
    /\ \E r \in DirectResponses(tile_name(lat, lon)) :
         LET out_tile == TilePath(lat, lon)
             res == download_srtm_aws(lat, lon, out_tile, r, disk)
             nxt == NextDirect(lat, lon, res.ret)
         IN  /\ disk' = res.disk
             /\ calls' = Append(calls, [lat |-> lat, lon |-> lon, status |-> r.status,
                                        responded |-> ~r.raises,
                                        body |-> r.body, ret |-> res.ret])
             /\ log' = Append(log, "direct")
             /\ IF res.ret = "raise"
                THEN /\ pc' = "aborted"
                     /\ err' = res.exc
                     /\ UNCHANGED <<lat, lon, success>>
                ELSE /\ success' = SetSuccess(success, res.ret)
                     /\ pc' = nxt.pc
                     /\ lat' = nxt.lat
                     /\ lon' = nxt.lon
                     /\ err' = err
    /\ UNCHANGED <<hgt_mode, dem, disk0, fbCalls, checks, reads, converted>>

\* if not success: download_opentopo(bounds, output_tif, api_key); hgt_mode = False
Fallback ==
    /\ pc = "branch"
    /\ ~success
    /\ \E r \in FallbackResponses :
         LET res == download_opentopo(bounds, output_tif, api_key, r, disk)
         IN  /\ disk' = res.disk
             /\ fbCalls' = Append(fbCalls, [url |-> OpenTopoUrl(bounds, api_key),
                                            out_path |-> output_tif,
                                            status |-> r.status,
                                            responded |-> ~r.raises,
                                            chunks |-> r.chunks, ret |-> res.ret])
             /\ log' = Append(log, "fallback")
             /\ IF res.ret = "raise"
                THEN /\ pc' = "aborted"
                     /\ err' = res.exc
                     /\ hgt_mode' = hgt_mode
                ELSE /\ pc' = "open"
                     /\ err' = err
                     /\ hgt_mode' = "False"
    /\ UNCHANGED <<lat, lon, success, dem, disk0, calls, checks, reads, converted>>

\* else: the converter's loops start
EnterConverter ==
    /\ pc = "branch"
    /\ success
    /\ pc' = "scan"
    /\ lat' = LatFirst
    /\ lon' = LonFirst
    /\ log' = Append(log, "else")
    /\ UNCHANGED <<disk, success, hgt_mode, dem, err, disk0, calls, fbCalls,
                   checks, reads, converted>>

\* variant: the inner break is missing
ScanNext_no_break(found, la, lo, succ) ==
    IF lo + 1 < LonStop
    THEN [pc |-> "scan", lat |-> la, lon |-> lo + 1]
    ELSE IF succ THEN [pc |-> "open", lat |-> la, lon |-> lo]
    ELSE IF la + 1 < LatStop THEN [pc |-> "scan", lat |-> la + 1, lon |-> LonFirst]
    ELSE [pc |-> "open", lat |-> la, lon |-> lo]

\* the position of the converter's double loop after the body ran at
\* (la, lo); found: the body ended with break
ScanNext(found, la, lo, succ) ==
    IF ~found /\ lo + 1 < LonStop
    THEN [pc |-> "scan", lat |-> la, lon |-> lo + 1]
    ELSE IF succ THEN [pc |-> "open", lat |-> la, lon |-> lo]
    ELSE IF la + 1 < LatStop THEN [pc |-> "scan", lat |-> la + 1, lon |-> LonFirst]
    ELSE [pc |-> "open", lat |-> la, lon |-> lo]

\* one iteration of the converter's scan
ConverterStep ==
    /\ pc = "scan"
    /\ LET tile_path == TilePath(lat, lon)
           found == Exists(disk, tile_path)
           nxt == ScanNext(found, lat, lon, success)
       IN  /\ checks' = Append(checks, tile_path)
           /\ IF ~found
              THEN /\ pc' = nxt.pc
                   /\ lat' = nxt.lat
                   /\ lon' = nxt.lon
                   /\ log' = Append(log, "check")
                   /\ UNCHANGED <<disk, hgt_mode, err, reads, converted>>
              ELSE /\ reads' = Append(reads, tile_path)
                   /\ IF ~ReshapeOk(disk[tile_path])
                      THEN /\ pc' = "aborted"
                           /\ err' = "ValueError"
                           /\ log' = Append(log, "check")
                           /\ UNCHANGED <<disk, hgt_mode, lat, lon, converted>>
                      ELSE /\ disk' = WriteFile(disk, output_tif,
                                         GTiff(disk[tile_path].tag,
                                               from_origin(lon, lat + 1)))
                           /\ converted' = Append(converted,
                                  [path |-> tile_path, lat |-> lat, lon |-> lon,
                                   origin |-> from_origin(lon, lat + 1)])
                           /\ hgt_mode' = "True"
                           /\ log' = Append(log, "convert")
                           /\ pc' = nxt.pc
                           /\ lat' = nxt.lat
                           /\ lon' = nxt.lon
                           /\ err' = err
    /\ UNCHANGED <<success, dem, disk0, calls, fbCalls>>

\* with rasterio.open(output_tif) as src: dem = src.read(1)
LoadDEM ==
    /\ pc = "open"
    /\ LET res == rasterio_open(disk, output_tif)
       IN  /\ log' = Append(log, "open")
           /\ IF res.exc # "none"
              THEN /\ pc' = "aborted"
                   /\ err' = res.exc
                   /\ dem' = dem
              ELSE /\ pc' = "plot"
                   /\ err' = err
                   /\ dem' = res.band
    /\ UNCHANGED <<disk, lat, lon, success, hgt_mode, disk0, calls, fbCalls,
                   checks, reads, converted>>

\* plt.figure ... plt.axis("off"); plt.save(...): pyplot has no attribute
\* save (the function that writes a figure is savefig)
PyplotHas(name) == name \in {"figure", "imshow", "colorbar", "title", "axis", "savefig"}

Plot ==
    /\ pc = "plot"
    /\ log' = Append(log, "plot")
    /\ IF PyplotHas("save")
       THEN /\ disk' = WriteFile(disk, heightmap_png, File("png", 0, dem.tag, dem.bytes, TRUE, <<>>, dem.origin))
            /\ pc' = "done"
            /\ err' = err
       ELSE /\ pc' = "aborted"
            /\ err' = "AttributeError"
            /\ disk' = disk
    /\ UNCHANGED <<lat, lon, success, hgt_mode, dem, disk0, calls, fbCalls,
                   checks, reads, converted>>

Next ==
    \/ DirectDownload
    \/ Fallback
    \/ EnterConverter
    \/ ConverterStep
    \/ LoadDEM
    \/ Plot

Spec == Init /\ [][Next]_vars

TypeOK ==
    /\ pc \in {"download", "branch", "scan", "open", "plot", "done", "aborted"}
    /\ success \in BOOLEAN
    /\ hgt_mode \in {"unset", "True", "False"}

(***************************************************************************)
(* Vocabulary of the properties.                                           *)
(***************************************************************************)
Finished == pc \in {"done", "aborted"}
Logged(e) == \E i \in 1..Len(log) : log[i] = e
LastCall == calls'[Len(calls')]
NewCall == Len(calls') = Len(calls) + 1
AllDirectFalse == Len(calls) = 4 /\ \A i \in 1..4 : calls[i].ret = "False"
SomeDirectTrue == \E i \in 1..Len(calls) : calls[i].ret = "True"
NoDirectRaised == \A i \in 1..Len(calls) : calls[i].ret # "raise"
FallbackGot200 == fbCalls # <<>> /\ fbCalls[1].responded /\ fbCalls[1].status = 200
FallbackGotNon200 == fbCalls # <<>> /\ fbCalls[1].responded /\ fbCalls[1].status # 200
GridOrder == <<<<28, 85>>, <<28, 86>>, <<29, 85>>, <<29, 86>>>>
GridFiles == << <<"N28E085.hgt">>, <<"N28E086.hgt">>, <<"N29E085.hgt">>, <<"N29E086.hgt">> >>
TifFile == <<"langtang_srtm.tif">>
PngFile == <<"langtang_heightmap.png">>

\* C1: the fallback fetcher is invoked iff all four direct downloads
\* returned False: at most once, only after the four attempts, never when
\* one of them returned True, and always once the branch is passed after
\* four False results.
C1_FallbackIffAllDirectFailed ==
    /\ Len(fbCalls) <= 1
    /\ fbCalls # <<>> => AllDirectFalse
    /\ \A i, j \in 1..Len(log) :
          (log[i] = "fallback" /\ log[j] = "direct") => j < i
    /\ SomeDirectTrue => fbCalls = <<>>
    /\ (AllDirectFalse /\ pc \notin {"download", "branch"}) => Len(fbCalls) = 1

C1_Witness ==
    /\ Len(fbCalls) = 1
    /\ AllDirectFalse
    /\ pc = "open"

\* C2: for every grid tile T, a run that starts without tile files, where
\* only the download of T succeeds (member <T>.hgt, 3601x3601 samples),
\* ends with the success flag set, exactly T converted, the raster written
\* by the conversion before the renderer opens it, and no fallback call.
OnlyTileSucceeds(t) ==
    /\ \A k \in 1..4 : ~Exists(disk0, GridFiles[k])
    /\ Len(calls) = 4
    /\ calls[t].ret = "True"
    /\ calls[t].body.member = GridFiles[t]
    /\ calls[t].body.size = 2 * 3601 * 3601
    /\ \A k \in 1..4 : k # t => calls[k].ret = "False"

C2_SingleTileIsConverted ==
    \A t \in 1..4 :
       (OnlyTileSucceeds(t) /\ Finished) =>
          /\ success
          /\ Len(converted) = 1
          /\ converted[1].path = GridFiles[t]
          /\ Exists(disk, TifFile) /\ disk[TifFile].kind = "gtiff"
          /\ \E i, j \in 1..Len(log) : log[i] = "convert" /\ log[j] = "open" /\ i < j
          /\ fbCalls = <<>>

\* C3: a direct download that gets a non-200 status returns False, does
\* not raise, and leaves every file as it was.
C3_DirectNon200IsSoftAndWritesNothing ==
    [][(NewCall /\ LastCall.responded /\ LastCall.status # 200) =>
          /\ LastCall.ret = "False"
          /\ pc' # "aborted"
          /\ err' = err
          /\ disk' = disk]_vars

C3_Witness ==
    /\ calls # <<>>
    /\ calls[Len(calls)].responded
    /\ calls[Len(calls)].status = 404
    /\ calls[Len(calls)].ret = "False"
    /\ disk = disk0
    /\ disk # << >>

\* C4 as stated: a direct download that gets status 200 and a valid archive
\* of one member returns True, leaves the extracted member at out_path and
\* no temporary file out_path + ".zip".
C4_ExtractedAtOutPath ==
    [][(NewCall /\ LastCall.responded /\ LastCall.status = 200 /\ LastCall.body.valid) =>
          LET k == Len(calls')
          IN  /\ LastCall.ret = "True"
              /\ Exists(disk', GridFiles[k])
              /\ disk'[GridFiles[k]].kind = "hgt"
              /\ disk'[GridFiles[k]].tag = LastCall.body.tag
              /\ disk'[GridFiles[k]].size = LastCall.body.size
              /\ ~Exists(disk', <<GridFiles[k][1] \o ".zip">>)]_vars

\* C4 amended: the same when the archive's member is named as out_path's
\* last component; every other file is as before.
C4_ExtractedAtOutPathWhenMemberNamedSo ==
    [][(NewCall /\ LastCall.responded /\ LastCall.status = 200 /\ LastCall.body.valid
         /\ LastCall.body.member = <<GridFiles[Len(calls')][1]>>) =>
          LET k == Len(calls')
          IN  /\ LastCall.ret = "True"
              /\ Exists(disk', GridFiles[k])
              /\ disk'[GridFiles[k]].kind = "hgt"
              /\ disk'[GridFiles[k]].tag = LastCall.body.tag
              /\ disk'[GridFiles[k]].size = LastCall.body.size
              /\ ~Exists(disk', <<GridFiles[k][1] \o ".zip">>)
              /\ \A q \in DOMAIN disk : q # GridFiles[k] =>
                    Exists(disk', q) /\ disk'[q] = disk[q]]_vars

C4_Witness ==
    /\ calls # <<>>
    /\ calls[Len(calls)].ret = "True"
    /\ calls[Len(calls)].body.member = GridFiles[Len(calls)]
    /\ Exists(disk, GridFiles[Len(calls)])
    /\ disk[GridFiles[Len(calls)]].tag # "old"
    /\ ~Exists(disk0, GridFiles[Len(calls)])

\* C5: a non-200 status in the fallback fetcher raises and ends the run:
\* the raster path is left as it was and neither the converter nor the
\* renderer runs afterwards.
C5_FallbackNon200IsFatal ==
    FallbackGotNon200 =>
       /\ pc = "aborted"
       /\ err = "RuntimeError"
       /\ log[Len(log)] = "fallback"
       /\ disk = disk0
       /\ checks = <<>> /\ reads = <<>> /\ converted = <<>>
       /\ ~Logged("open") /\ ~Logged("plot")
       /\ dem.tag = "none"

C5_Witness ==
    /\ FallbackGotNon200
    /\ pc = "aborted"
    /\ Exists(disk0, TifFile)

\* C6: when the four direct downloads fail and the fallback gets 200, the
\* fallback is called with west 85.25, south 28.15, east 85.90, north 28.60
\* and destination langtang_srtm.tif, the file holds the body's chunks one
\* after the other in arrival order, the converter does not run, and the
\* renderer reads that file.
RECURSIVE ChunkOffset(_, _)
ChunkOffset(cs, i) == IF i = 1 THEN 0 ELSE ChunkOffset(cs, i - 1) + Len(cs[i - 1])

IsChunksInOrder(bs, cs) ==
    /\ Len(bs) = ChunkOffset(cs, Len(cs) + 1)
    /\ \A i \in 1..Len(cs) : \A j \in 1..Len(cs[i]) :
          bs[ChunkOffset(cs, i) + j] = cs[i][j]

C6_FallbackWritesBodyVerbatim ==
    (AllDirectFalse /\ FallbackGot200) =>
       /\ fbCalls[1].url.west = 8525
       /\ fbCalls[1].url.south = 2815
       /\ fbCalls[1].url.east = 8590
       /\ fbCalls[1].url.north = 2860
       /\ fbCalls[1].out_path = TifFile
       /\ fbCalls[1].ret = "True"
       /\ Exists(disk, TifFile)
       /\ disk[TifFile].kind = "bytes"
       /\ IsChunksInOrder(disk[TifFile].bytes, fbCalls[1].chunks)
       /\ checks = <<>> /\ reads = <<>> /\ converted = <<>>
       /\ pc # "scan"
       /\ err # "FileNotFound"
       /\ Logged("plot") => dem.bytes = disk[TifFile].bytes /\ dem.tag = "body"

C6_Witness ==
    /\ AllDirectFalse
    /\ FallbackGot200
    /\ Len(fbCalls[1].chunks) = 2
    /\ fbCalls[1].chunks[1] # fbCalls[1].chunks[2]
    /\ Exists(disk0, TifFile)
    /\ Logged("plot")

\* C7: every run in which the raster file was produced and the renderer
\* could read it ends with langtang_heightmap.png written and no error.
RasterProduced ==
    \/ fbCalls # <<>> /\ fbCalls[1].ret = "True"
    \/ converted # <<>>

C7_HeightmapWritten ==
    (Finished /\ RasterProduced /\ Logged("open") /\ err \notin {"FileNotFound", "NotARaster"}) =>
       /\ pc = "done"
       /\ err = "none"
       /\ Exists(disk, PngFile)

\* C8 as stated: every run started without the raster file in which no
\* direct download raised and neither the fallback nor the converter
\* produced the raster reaches the load stage and fails at the open with a
\* file-not-found error.
C8_NoRasterFailsAtOpen ==
    (Finished /\ ~Exists(disk0, TifFile) /\ NoDirectRaised /\ ~RasterProduced) =>
       /\ Logged("open")
       /\ log[Len(log)] = "open"
       /\ err = "FileNotFound"

\* C8 amended: every run started without the raster file that reaches the
\* load stage while neither the fallback nor the converter produced the
\* raster fails there, at the open, with a file-not-found error; a run in
\* which the fallback failed never reaches the load stage.
C8_OpenWithoutRasterFails ==
    /\ (Logged("open") /\ ~Exists(disk0, TifFile) /\ ~RasterProduced) =>
          /\ pc = "aborted"
          /\ log[Len(log)] = "open"
          /\ err = "FileNotFound"
          /\ ~Exists(disk, TifFile)
          /\ SomeDirectTrue
    /\ (fbCalls # <<>> /\ fbCalls[1].ret # "True") => ~Logged("open")

C8_Witness ==
    /\ Logged("open")
    /\ ~Exists(disk0, TifFile)
    /\ ~RasterProduced
    /\ err = "FileNotFound"

\* C9: when no direct download raises, download_srtm_aws is called exactly
\* once per pair, in the order (28,85), (28,86), (29,85), (29,86), whatever
\* the earlier results; the success flag stays true once an attempt
\* returned True.
C9_FourAttemptsInOrder ==
    /\ Len(calls) <= 4
    /\ \A i \in 1..Len(calls) : <<calls[i].lat, calls[i].lon>> = GridOrder[i]
    /\ (NoDirectRaised /\ pc # "download") => Len(calls) = 4
    /\ (pc = "download" /\ NoDirectRaised) => <<lat, lon>> = GridOrder[Len(calls) + 1]
    /\ (SomeDirectTrue /\ NoDirectRaised) => success
    /\ success => SomeDirectTrue

C9_Witness ==
    /\ Len(calls) = 4
    /\ calls[1].ret = "True"
    /\ calls[2].ret = "False"
    /\ calls[4].ret = "False"
    /\ success
    /\ pc = "branch"

\* C10: the converter reads at most one tile file and writes the raster at
\* most once; the check of the converted tile is the last existence check;
\* the converted tile is the first of the scan order (28,85), (28,86),
\* (29,85), (29,86) whose file is on disk, and the raster carries the
\* origin (lon, lat + 1) of that tile.
ScanIndex(path) == CHOOSE k \in 1..4 : GridFiles[k] = path

C10_FirstExistingTileConvertedOnce ==
    /\ Len(reads) <= 1
    /\ Len(converted) <= 1
    /\ \A i \in 1..Len(checks) : \A j \in 1..Len(checks) : i # j => checks[i] # checks[j]
    /\ converted # <<>> =>
          LET c == converted[1]
              k == ScanIndex(c.path)
          IN  /\ pc # "scan"
              /\ reads = <<c.path>>
              /\ checks[Len(checks)] = c.path
              /\ <<c.lat, c.lon>> = GridOrder[k]
              /\ Exists(disk, c.path)
              /\ \A m \in 1..(k - 1) : ~Exists(disk, GridFiles[m])
              /\ c.origin = <<GridOrder[k][2], GridOrder[k][1] + 1>>
              /\ Exists(disk, TifFile)
              /\ disk[TifFile].kind = "gtiff"
              /\ disk[TifFile].origin = c.origin
              /\ disk[TifFile].tag = disk[c.path].tag

C10_Witness ==
    /\ Len(converted) = 1
    /\ converted[1].path = GridFiles[2]
    /\ Len(checks) = 2
    /\ Cardinality({i \in 1..Len(calls) : calls[i].ret = "True"}) >= 2
    /\ Exists(disk, GridFiles[3])
    /\ pc = "open"
====
